---- MODULE Spec2Model ----
(***************************************************************************)
(* Model of nsp.py, the navigation server proxy: one inbound request is    *)
(* followed through the handler that serves it (api_v1 or api_osrm), the   *)
(* construction of the RouteQuery, the adapter (route_yours / route_ecan)  *)
(* and the formatter (RouteResult.json / RouteResult.gpx).                 *)
(*                                                                         *)
(* Python values are encoded as follows.                                   *)
(*   None            [tag |-> "None",  v |-> <<>>]                         *)
(*   a list          [tag |-> "list",  v |-> <<...>>]                      *)
(*   a tuple         [tag |-> "tuple", v |-> <<...>>]                      *)
(*   a float         an integer (all inputs are whole numbers)             *)
(*   a dict          a function whose domain is the set of its keys        *)
(*   a str that is parsed or produced character by character               *)
(*                   a sequence of one-character strings                   *)
(*   a str that is only looked up or compared (mode, format, service)      *)
(*                   a TLA+ string                                         *)
(*   an exception    [type |-> class name, msg |-> message]                *)
(***************************************************************************)
EXTENDS Integers, Sequences, FiniteSets, TLC

\* Longest upstream path (number of points) the upstream may answer with.
MaxPath == 2
\* Largest number of repeated loc parameters of an /api/osrm/v1 request.
MaxLocs == 3

VARIABLES
    pc,         \* position of the request: idle, parse, select, invoke, format, done
    surface,    \* the handler Flask routed the request to: "v1" or "osrm"
    service,    \* the <service> path segment of /api/v1/<service>
    json,       \* flask.request.json: None or the decoded JSON object
    args,       \* flask.request.args
    query,      \* the RouteQuery
    adapter,    \* the routing function that was called, or "none"
    calls,      \* number of urllib2.urlopen calls made for the request
    outbound,   \* the parameters of the uri handed to urllib2.urlopen
    upstream,   \* what urllib2.urlopen / flask.json.load produced
    result,     \* the RouteResult
    formatter,  \* attribute of the RouteResult that was called to format it
    response,   \* the value the view function returned
    exc,        \* the exception that ended the request, or NoExc
    stage       \* the stage in which the request ended

vars == <<pc, surface, service, json, args, query, adapter, calls, outbound,
          upstream, result, formatter, response, exc, stage>>

----------------------------------------------------------------------------
\* Python values

PyNone == [tag |-> "None", v |-> <<>>]
PyList(s) == [tag |-> "list", v |-> s]
PyTuple(s) == [tag |-> "tuple", v |-> s]

NoExc == [type |-> "none", msg |-> ""]
Exc(t, m) == [type |-> t, msg |-> m]

\* dict.get(k, default)
DictGet(d, k, default) == IF k \in DOMAIN d THEN d[k] ELSE default

\* The empty dict.
EmptyDict == [x \in {} |-> x]

----------------------------------------------------------------------------
\* Strings: str.split(','), float(), '%f' %

RECURSIVE SplitAcc(_, _, _)
SplitAcc(s, cur, acc) ==
    IF s = <<>> THEN Append(acc, cur)
    ELSE IF Head(s) = "," THEN SplitAcc(Tail(s), <<>>, Append(acc, cur))
    ELSE SplitAcc(Tail(s), Append(cur, Head(s)), acc)

\* s.split(','): the fields of s between commas; ''.split(',') is [''].
Split(s) == SplitAcc(s, <<>>, <<>>)

Digits == <<"0", "1", "2", "3", "4", "5", "6", "7", "8", "9">>

IsDigit(c) == \E i \in 1..10 : Digits[i] = c

DigitVal(c) == (CHOOSE i \in 1..10 : Digits[i] = c) - 1

Unsigned(f) == IF f # <<>> /\ Head(f) = "-" THEN Tail(f) ELSE f

\* Whether float(f) returns: over the alphabet of the inputs (digits, '-' and
\* a letter) that is an optional '-' followed by at least one digit.
IsFloat(f) ==
    /\ Unsigned(f) # <<>>
    /\ \A i \in 1..Len(Unsigned(f)) : IsDigit(Unsigned(f)[i])

RECURSIVE NatVal(_, _)
NatVal(ds, acc) ==
    IF ds = <<>> THEN acc ELSE NatVal(Tail(ds), 10 * acc + DigitVal(Head(ds)))

\* float(f) for a field f with IsFloat(f).
FloatVal(f) ==
    IF Head(f) = "-" THEN 0 - NatVal(Tail(f), 0) ELSE NatVal(f, 0)

\* [float(x) for x in s.split(',')]: the floats, or ValueError.
Floats(s) ==
    LET fs == Split(s) IN
    IF \A i \in 1..Len(fs) : IsFloat(fs[i])
    THEN [exc |-> NoExc, val |-> [i \in 1..Len(fs) |-> FloatVal(fs[i])]]
    ELSE [exc |-> Exc("ValueError", "could not convert string to float"),
          val |-> <<>>]

RECURSIVE NatChars(_)
NatChars(n) ==
    IF n < 10 THEN <<Digits[n + 1]>>
    ELSE Append(NatChars(n \div 10), Digits[(n % 10) + 1])

\* '%f' % x for a whole number x: fixed point with six decimals.
FormatF(x) ==
    (IF x < 0 THEN <<"-">> \o NatChars(0 - x) ELSE NatChars(x))
        \o <<".", "0", "0", "0", "0", "0", "0">>

\* str(x) of a float holding a whole number, as '{}'.format writes it.
StrFloat(x) ==
    (IF x < 0 THEN <<"-">> \o NatChars(0 - x) ELSE NatChars(x)) \o <<".", "0">>

----------------------------------------------------------------------------
\* RouteQuery

\* RouteQuery.__init__
NewRouteQuery ==
    [mode |-> "car", waypoints |-> PyList(<<>>),
     origin |-> PyNone, destination |-> PyNone]

valid_modes == {"car", "bicycle", "pedestrian"}

\* RouteQuery.validate: the ValueError it raises, or NoExc.
Validate(q) ==
    IF q.origin.tag = "None"
    THEN Exc("ValueError", "Parameter *origin* is required")
    ELSE IF q.destination.tag = "None"
    THEN Exc("ValueError", "Parameter *destination* is required")
    ELSE IF q.mode \notin valid_modes
    THEN Exc("ValueError", "Parameter *mode* must be one of valid_modes")
    ELSE IF Len(q.origin.v) < 2
    THEN Exc("ValueError", "Parameter *origin* must have lat and lon")
    ELSE IF Len(q.destination.v) < 2
    THEN Exc("ValueError", "Parameter *destination* must have lat and lon")
    ELSE NoExc

\* wp[start::2] for start = 0 or 1 (positions start+1, start+3, ... of the
\* 1-based sequence).
Stride2(wp, start) ==
    [i \in 1..((Len(wp) - start + 1) \div 2) |-> wp[start + 2 * i - 1]]

\* list(zip(a, b)): tuples of the elements at equal positions, as many as the
\* shorter of the two holds.
Zip(a, b) ==
    [i \in 1..(IF Len(a) < Len(b) THEN Len(a) ELSE Len(b)) |->
        PyTuple(<<a[i], b[i]>>)]

\* The waypoints of a query string: list(zip(wp[::2], wp[1::2])).
PairUp(wp) == PyList(Zip(Stride2(wp, 0), Stride2(wp, 1)))

\* args[k] on the MultiDict of query arguments raises BadRequestKeyError (an
\* HTTPException with code 400) for a key that is absent.
KeyErrorOf(k) == Exc("BadRequestKeyError", k)

\* RouteQuery.from_args on the query q: the exception raised (or NoExc) and q
\* as the assignments made until then leave it.
FromArgs(q, a) ==
    IF "origin" \notin DOMAIN a THEN [exc |-> KeyErrorOf("origin"), query |-> q]
    ELSE IF Floats(a["origin"]).exc # NoExc
    THEN [exc |-> Floats(a["origin"]).exc, query |-> q]
    ELSE
    LET q1 == [q EXCEPT !.origin = PyList(Floats(a["origin"]).val)] IN
    IF "destination" \notin DOMAIN a
    THEN [exc |-> KeyErrorOf("destination"), query |-> q1]
    ELSE IF Floats(a["destination"]).exc # NoExc
    THEN [exc |-> Floats(a["destination"]).exc, query |-> q1]
    ELSE
    LET q2 == [q1 EXCEPT !.destination = PyList(Floats(a["destination"]).val)] IN
    IF "waypoints" \notin DOMAIN a
    THEN [exc |-> Validate(q2), query |-> q2]
    ELSE IF Floats(a["waypoints"]).exc # NoExc
    THEN [exc |-> Floats(a["waypoints"]).exc, query |-> q2]
    ELSE
    LET q3 == [q2 EXCEPT !.waypoints = PairUp(Floats(a["waypoints"]).val)] IN
    [exc |-> Validate(q3), query |-> q3]

\* setattr(self, attribute, json[attribute]) if attribute in json
CopyAttr(q, j, attribute) ==
    IF attribute \in DOMAIN j THEN [q EXCEPT ![attribute] = j[attribute]] ELSE q

\* RouteQuery.from_json on the query q.
FromJson(q, j) ==
    LET q4 == CopyAttr(CopyAttr(CopyAttr(CopyAttr(q, j, "origin"),
                  j, "destination"), j, "mode"), j, "waypoints")
    IN [exc |-> Validate(q4), query |-> q4]

\* loc_from_string
loc_from_string(s) == Floats(s)

\* args.getlist('loc', loc_from_string): the converted values of the repeated
\* parameter in order; a value whose conversion raises ValueError is left out.
RECURSIVE GetList(_)
GetList(ls) ==
    IF ls = <<>> THEN <<>>
    ELSE IF loc_from_string(Head(ls)).exc # NoExc THEN GetList(Tail(ls))
    ELSE <<PyList(loc_from_string(Head(ls)).val)>> \o GetList(Tail(ls))

\* Flask's answer to an exception leaving a view function: an HTTPException
\* answers with its own code, any other exception is an internal server error
\* (the application registers no error handler).
HttpStatus(e) ==
    IF e.type = "none" THEN 200
    ELSE IF e.type = "BadRequestKeyError" THEN 400
    ELSE 500

----------------------------------------------------------------------------
\* Inbound requests

Restrict(f, D) == [k \in D |-> f[k]]

\* Sequences over S of length at most n.
SeqUpTo(S, n) == UNION {[1..k -> S] : k \in 0..n}

Services == {"yours", "ecan", "bogus"}

OriginStrs ==
    { <<"1", ",", "2">>, <<"-", "4", ",", "3">>, <<"7">>, <<"x", ",", "2">> }
DestStrs == { <<"3", ",", "4">>, <<"5">> }
WaypointStrs ==
    { <<"1", ",", "2", ",", "3", ",", "4">>, <<"1", ",", "2", ",", "3">>,
      <<"9">> }
ArgModes == {"car", "bicycle", "plane"}
Formats == {"json", "gpx", "clear", "bogus"}

\* Query arguments of a request to /api/v1/<service> without a JSON body.
V1Args ==
    { Restrict(f, D) :
        f \in [origin : OriginStrs, destination : DestStrs,
               waypoints : WaypointStrs, mode : ArgModes, format : Formats],
        D \in SUBSET {"origin", "destination", "waypoints", "mode", "format"} }

\* Query arguments of a request that carries a JSON body.
V1FormatArgs == { Restrict(f, D) : f \in [format : Formats], D \in SUBSET {"format"} }

\* JSON bodies.
V1Bodies ==
    { Restrict(f, D) :
        f \in [origin : {PyList(<<1, 2>>), PyList(<<7>>)},
               destination : {PyList(<<3, 4>>)},
               mode : {"car", "bicycle", "plane"},
               waypoints : {PyList(<<PyList(<<1, 2>>), PyList(<<3, 4>>)>>)}],
        D \in SUBSET {"origin", "destination", "mode", "waypoints"} }

LocStrs == { <<"1", ",", "2">>, <<"3", ",", "4">>, <<"7">>, <<"x">> }
Outputs == {"json", "gpx"}

\* Query arguments of a request to /api/osrm/v1.
OsrmArgs ==
    { [k \in D \cup {"loc"} |-> IF k = "loc" THEN ls ELSE f[k]] :
        ls \in SeqUpTo(LocStrs, MaxLocs),
        f \in [mode : ArgModes, output : Outputs],
        D \in SUBSET {"mode", "output"} }

----------------------------------------------------------------------------
\* The request

Init ==
    /\ pc = "idle"
    /\ surface = "none"
    /\ service = "none"
    /\ json = PyNone
    /\ args = EmptyDict
    /\ query = NewRouteQuery
    /\ adapter = "none"
    /\ calls = 0
    /\ outbound = EmptyDict
    /\ upstream = [kind |-> "none"]
    /\ result = EmptyDict
    /\ formatter = "none"
    /\ response = [kind |-> "none"]
    /\ exc = NoExc
    /\ stage = "none"

\* A request to /api/v1/<service> arrives with query arguments only.
ReceiveV1Args ==
    /\ pc = "idle"
    /\ \E svc \in Services, a \in V1Args :
        /\ service' = svc
        /\ args' = a
    /\ json' = PyNone
    /\ surface' = "v1"
    /\ pc' = "parse"
    /\ UNCHANGED <<query, adapter, calls, outbound, upstream, result,
                   formatter, response, exc, stage>>

\* A request to /api/v1/<service> arrives with a JSON body.
ReceiveV1Json ==
    /\ pc = "idle"
    /\ \E svc \in Services, a \in V1FormatArgs, j \in V1Bodies :
        /\ service' = svc
        /\ args' = a
        /\ json' = [tag |-> "dict", v |-> j]
    /\ surface' = "v1"
    /\ pc' = "parse"
    /\ UNCHANGED <<query, adapter, calls, outbound, upstream, result,
                   formatter, response, exc, stage>>

\* A request to /api/osrm/v1 arrives.
ReceiveOsrm ==
    /\ pc = "idle"
    /\ \E a \in OsrmArgs : args' = a
    /\ json' = PyNone
    /\ service' = "none"
    /\ surface' = "osrm"
    /\ pc' = "parse"
    /\ UNCHANGED <<query, adapter, calls, outbound, upstream, result,
                   formatter, response, exc, stage>>

\* The request ends with exception e leaving the view function in stage st.
Fail(e, st) ==
    /\ exc' = e
    /\ stage' = st
    /\ pc' = "done"

\* api_v1, lines 38-42: build the RouteQuery from the body or the arguments.
ApiV1Parse ==
    /\ pc = "parse"
    /\ surface = "v1"
    /\ LET r == IF json.tag # "None" THEN FromJson(NewRouteQuery, json.v)
                ELSE FromArgs(NewRouteQuery, args)
       IN /\ query' = r.query
          /\ IF r.exc # NoExc THEN Fail(r.exc, "parse")
             ELSE /\ pc' = "select"
                  /\ UNCHANGED <<exc, stage>>
    /\ UNCHANGED <<surface, service, json, args, adapter, calls, outbound,
                   upstream, result, formatter, response>>

\* _routing_services: the registry of routing functions by service name.
_routing_services == [ecan |-> "route_ecan", yours |-> "route_yours"]

\* api_v1, lines 46-47: look the routing function up and call it; the lookup
\* of a name that is not registered gives None, and calling None raises.
ApiV1Select ==
    /\ pc = "select"
    /\ surface = "v1"
    /\ IF service \in DOMAIN _routing_services
       THEN /\ adapter' = _routing_services[service]
            /\ pc' = "invoke"
            /\ UNCHANGED <<exc, stage>>
       ELSE /\ Fail(Exc("TypeError", "'NoneType' object is not callable"),
                    "select")
            /\ UNCHANGED adapter
    /\ UNCHANGED <<surface, service, json, args, query, calls, outbound,
                   upstream, result, formatter, response>>

\* api_osrm, lines 61-73: build the RouteQuery from the loc list and call
\* route_yours. The value of the output argument is read into fmt and not
\* used again.
ApiOsrmParse ==
    /\ pc = "parse"
    /\ surface = "osrm"
    /\ LET locs == GetList(args["loc"]) IN
       IF locs = <<>>
       THEN /\ Fail(Exc("IndexError", "list index out of range"), "parse")
            /\ UNCHANGED <<query, adapter>>
       ELSE LET q == [origin |-> locs[1],
                      destination |-> locs[Len(locs)],
                      waypoints |-> PyList(SubSeq(locs, 2, Len(locs) - 1)),
                      mode |-> DictGet(args, "mode", "car")]
            IN /\ query' = q
               /\ IF Validate(q) # NoExc
                  THEN /\ Fail(Validate(q), "parse")
                       /\ UNCHANGED adapter
                  ELSE /\ adapter' = "route_yours"
                       /\ pc' = "invoke"
                       /\ UNCHANGED <<exc, stage>>
    /\ UNCHANGED <<surface, service, json, args, calls, outbound, upstream,
                   result, formatter, response>>

----------------------------------------------------------------------------
\* Upstream providers

\* What the outbound call can come to: urlopen raises URLError, the body is
\* not JSON (flask.json.load raises ValueError), or it is a JSON object.
Unreachable == [kind |-> "URLError"]
NotJson == [kind |-> "garbage"]
Payload(p) == [kind |-> "json", payload |-> p]

\* [lon, lat] or [lon, lat, altitude] points of a yours answer, and one
\* point that lacks a component.
YoursPoints ==
    { PyList(<<172, -43>>), PyList(<<173, -44>>), PyList(<<170, -45, 9>>),
      PyList(<<5>>) }

YoursUpstreams ==
    {Unreachable, NotJson, Payload([type |-> "LineString"])}
    \cup { Payload([type |-> "LineString", coordinates |-> PyList(c)]) :
             c \in SeqUpTo(YoursPoints, MaxPath) }

\* [x, y, m] points of an ecan answer, in the projected coordinates of the
\* answer's spatial reference (wkid 102100).
EcanPoints ==
    { PyList(<<19218163, -5393900, 0>>), PyList(<<19218162, -5393812, 88>>),
      PyList(<<100, 50, 0>>) }

EcanRoute(path) ==
    [routes |-> [features |->
        PyList(<<[geometry |-> [paths |-> PyList(<<PyList(path)>>)]]>>)]]

EcanUpstreams ==
    {Unreachable, NotJson,
     Payload([error |-> "Invalid or missing input parameters"]),
     Payload([routes |-> [hasM |-> TRUE]]),
     Payload([routes |-> [features |-> PyList(<<>>)]])}
    \cup { Payload(EcanRoute(path)) : path \in SeqUpTo(EcanPoints, MaxPath) }

\* route_yours, line 235: the provider's name of the mode.
YoursMode(m) ==
    CASE m = "car" -> "motorcar"
      [] m = "pedestrian" -> "foot"
      [] OTHER -> m

\* route_yours, lines 237-244: the parameters of the uri.
YoursUri(q, format) ==
    [format |-> format, instructions |-> <<"1">>,
     flat |-> FormatF(q.origin.v[1]), flon |-> FormatF(q.origin.v[2]),
     tlat |-> FormatF(q.destination.v[1]), tlon |-> FormatF(q.destination.v[2]),
     v |-> YoursMode(q.mode)]

\* The track with the axes left as the provider sent them.
YoursTrackNoSwap(c) == [i \in 1..Len(c) |-> PyTuple(<<c[i].v[1], c[i].v[2]>>)]

\* route_yours, lines 289-291: the track of the coordinates c, each point
\* with latitude first.
YoursTrack(c) == [i \in 1..Len(c) |-> PyTuple(<<c[i].v[2], c[i].v[1]>>)]

\* route_yours, lines 250-297, on the decoded answer: the RouteResult.
YoursResult(payload, format) ==
    IF format # "geojson" THEN [exc |-> NoExc, val |-> EmptyDict]
    ELSE IF "coordinates" \notin DOMAIN payload
    THEN [exc |-> Exc("KeyError", "coordinates"), val |-> EmptyDict]
    ELSE IF \E i \in 1..Len(payload["coordinates"].v) :
                Len(payload["coordinates"].v[i].v) < 2
    THEN [exc |-> Exc("IndexError", "list index out of range"),
          val |-> EmptyDict]
    ELSE [exc |-> NoExc,
          val |-> [track |-> PyList(YoursTrack(payload["coordinates"].v))]]

\* route_ecan, line 306: the stops parameter of the uri.
EcanUri(q) ==
    [stops |-> <<StrFloat(q.origin.v[2]), StrFloat(q.origin.v[1]),
                 StrFloat(q.destination.v[2]), StrFloat(q.destination.v[1])>>,
     f |-> "json"]

\* route_ecan, line 482: the coordinates of the path.
EcanCoordinates(path) ==
    [i \in 1..Len(path) |-> PyTuple(<<path[i].v[2], path[i].v[1]>>)]

\* route_ecan, lines 480-485, on the decoded answer: the RouteResult.
EcanResult(payload) ==
    IF "routes" \notin DOMAIN payload
    THEN [exc |-> Exc("KeyError", "routes"), val |-> EmptyDict]
    ELSE IF "features" \notin DOMAIN payload["routes"]
    THEN [exc |-> Exc("KeyError", "features"), val |-> EmptyDict]
    ELSE IF payload["routes"]["features"].v = <<>>
    THEN [exc |-> Exc("IndexError", "list index out of range"),
          val |-> EmptyDict]
    ELSE
    LET path == payload["routes"]["features"].v[1]["geometry"]["paths"].v[1].v
    IN IF \E i \in 1..Len(path) : Len(path[i].v) < 2
       THEN [exc |-> Exc("IndexError", "list index out of range"),
             val |-> EmptyDict]
       ELSE [exc |-> NoExc,
             val |-> [coordinates |-> PyList(EcanCoordinates(path)),
                      type |-> "LineString"]]

\* The outcome of urlopen and flask.json.load on the answer up, followed by
\* the adapter's own reading r of the payload.
AfterCall(up, r) ==
    IF up.kind = "URLError"
    THEN /\ Fail(Exc("URLError", "urlopen error"), "invoke")
         /\ UNCHANGED result
    ELSE IF up.kind = "garbage"
    THEN /\ Fail(Exc("ValueError", "No JSON object could be decoded"), "invoke")
         /\ UNCHANGED result
    ELSE IF r.exc # NoExc
    THEN /\ Fail(r.exc, "invoke")
         /\ UNCHANGED result
    ELSE /\ result' = r.val
         /\ pc' = "format"
         /\ UNCHANGED <<exc, stage>>

\* route_yours(query): one call of the provider and the reading of its answer.
RouteYours ==
    /\ pc = "invoke"
    /\ adapter = "route_yours"
    /\ outbound' = YoursUri(query, "geojson")
    /\ calls' = calls + 1
    /\ \E up \in YoursUpstreams :
        /\ upstream' = up
        /\ AfterCall(up, IF up.kind = "json"
                         THEN YoursResult(up.payload, "geojson")
                         ELSE [exc |-> NoExc, val |-> EmptyDict])
    /\ UNCHANGED <<surface, service, json, args, query, adapter, formatter,
                   response>>

\* route_ecan(query): one call of the provider and the reading of its answer.
RouteEcan ==
    /\ pc = "invoke"
    /\ adapter = "route_ecan"
    /\ outbound' = EcanUri(query)
    /\ calls' = calls + 1
    /\ \E up \in EcanUpstreams :
        /\ upstream' = up
        /\ AfterCall(up, IF up.kind = "json" THEN EcanResult(up.payload)
                         ELSE [exc |-> NoExc, val |-> EmptyDict])
    /\ UNCHANGED <<surface, service, json, args, query, adapter, formatter,
                   response>>

----------------------------------------------------------------------------
\* RouteResult

\* '<rtept lat="%f" lon="%f" />' % c raises TypeError unless c is a tuple of
\* two numbers.
Formattable(c) == c.tag = "tuple" /\ Len(c.v) = 2

\* The point elements written for the sequence of points l.
GpxPoints(l) ==
    [i \in 1..Len(l) |-> [lat |-> FormatF(l[i].v[1]), lon |-> FormatF(l[i].v[2])]]

\* RouteResult.gpx: the document (its <trk><trkseg>, its <rte> and its
\* waypoint text), or the TypeError raised on the way.
Gpx(res) ==
    LET route == DictGet(res, "route", DictGet(res, "track", PyNone))
        track == DictGet(res, "track", DictGet(res, "route", PyNone))
    IN IF route.tag = "None"
       THEN [exc |-> Exc("TypeError", "'NoneType' object is not iterable"),
             val |-> [kind |-> "none"]]
       ELSE IF \E i \in 1..Len(route.v) : ~Formattable(route.v[i])
       THEN [exc |-> Exc("TypeError", "float argument required"),
             val |-> [kind |-> "none"]]
       ELSE IF track.tag = "None"
       THEN [exc |-> Exc("TypeError", "'NoneType' object is not iterable"),
             val |-> [kind |-> "none"]]
       ELSE IF \E i \in 1..Len(track.v) : ~Formattable(track.v[i])
       THEN [exc |-> Exc("TypeError", "float argument required"),
             val |-> [kind |-> "none"]]
       ELSE [exc |-> NoExc,
             val |-> [kind |-> "gpx", trk |-> GpxPoints(track.v),
                      rte |-> GpxPoints(route.v), wpt |-> <<>>]]

\* RouteResult.json: flask.jsonify of the dict; a tuple is written as an array.
Json(res) ==
    [kind |-> "json",
     body |-> [k \in DOMAIN res |->
                 IF k = "type" THEN res[k]
                 ELSE [i \in 1..Len(res[k].v) |-> res[k].v[i].v]]]

\* The method RouteResult inherits from dict that the requests name.
DictMethods == {"clear"}

\* api_v1, lines 49-51: getattr(route, fmt)() with fmt the format argument.
ApiV1Format ==
    /\ pc = "format"
    /\ surface = "v1"
    /\ LET fmt == DictGet(args, "format", "json") IN
       IF fmt = "json"
       THEN /\ formatter' = fmt
            /\ response' = Json(result)
            /\ stage' = "respond"
            /\ pc' = "done"
            /\ UNCHANGED <<exc, result>>
       ELSE IF fmt = "gpx"
       THEN /\ formatter' = fmt
            /\ IF Gpx(result).exc # NoExc
               THEN /\ Fail(Gpx(result).exc, "format")
                    /\ UNCHANGED response
               ELSE /\ response' = Gpx(result).val
                    /\ stage' = "respond"
                    /\ pc' = "done"
                    /\ UNCHANGED exc
            /\ UNCHANGED result
       ELSE IF fmt \in DictMethods
       THEN \* dict.clear() empties the result and returns None, which Flask
            \* refuses as the value of a view function.
            /\ formatter' = fmt
            /\ result' = EmptyDict
            /\ Fail(Exc("ValueError", "View function did not return a response"),
                    "format")
            /\ UNCHANGED response
       ELSE /\ Fail(Exc("AttributeError", fmt), "format")
            /\ UNCHANGED <<formatter, response, result>>
    /\ UNCHANGED <<surface, service, json, args, query, adapter, calls,
                   outbound, upstream>>

\* api_osrm, lines 76-78: route.gpx(), whatever the output argument says.
ApiOsrmFormat ==
    /\ pc = "format"
    /\ surface = "osrm"
    /\ formatter' = "gpx"
    /\ IF Gpx(result).exc # NoExc
       THEN /\ Fail(Gpx(result).exc, "format")
            /\ UNCHANGED response
       ELSE /\ response' = Gpx(result).val
            /\ stage' = "respond"
            /\ pc' = "done"
            /\ UNCHANGED exc
    /\ UNCHANGED <<surface, service, json, args, query, adapter, calls,
                   outbound, upstream, result>>

Next ==
    \/ ReceiveV1Args
    \/ ReceiveV1Json
    \/ ReceiveOsrm
    \/ ApiV1Parse
    \/ ApiV1Select
    \/ ApiOsrmParse
    \/ RouteYours
    \/ RouteEcan
    \/ ApiV1Format
    \/ ApiOsrmFormat

Spec == Init /\ [][Next]_vars

----------------------------------------------------------------------------
\* Properties

\* The HTTP status the request ends with.
Status == HttpStatus(exc)

Abs(x) == IF x < 0 THEN 0 - x ELSE x

\* C1: a request to /api/v1/<service> that has passed Parse and names a
\* service that is not registered ends with a 404 status, and no adapter is
\* invoked for it.
C1_UnknownServiceIsNotFound ==
    (/\ surface = "v1"
     /\ service \notin {"yours", "ecan"}
     /\ pc = "done"
     /\ stage # "parse")
        => (Status = 404 /\ adapter = "none")

\* What the request supplies, on whichever of the two construction paths
\* api_v1 takes for it.
ReqHas(k) ==
    IF json.tag # "None" THEN k \in DOMAIN json.v ELSE k \in DOMAIN args
ReqMode ==
    IF json.tag # "None" THEN DictGet(json.v, "mode", "car")
    ELSE DictGet(args, "mode", "car")
ReqComponents(k) ==
    IF json.tag # "None" THEN Len(json.v[k].v) ELSE Len(Split(args[k]))
ReqMissing == ~ReqHas("origin") \/ ~ReqHas("destination")
\* The coordinates the request gives are written as numbers.
ReqNumeric ==
    \/ json.tag # "None"
    \/ \A k \in DOMAIN args \cap {"origin", "destination", "waypoints"} :
            Floats(args[k]).exc = NoExc
ReqInvalid ==
    \/ ReqMode \notin {"car", "bicycle", "pedestrian"}
    \/ (ReqHas("origin") /\ ReqComponents("origin") < 2)
    \/ (ReqHas("destination") /\ ReqComponents("destination") < 2)

\* C2: on both construction paths a request to /api/v1/<service> that lacks
\* origin or destination, names a mode outside {car, bicycle, pedestrian} or
\* gives origin or destination fewer than 2 components ends in the Parse stage
\* with a 400 status, and no adapter is invoked for it.
C2_InvalidRequestEndsInParse ==
    (surface = "v1" /\ pc # "idle" /\ ReqNumeric /\ (ReqMissing \/ ReqInvalid))
        => /\ adapter = "none"
           /\ calls = 0
           /\ pc \in {"parse", "done"}
           /\ (pc = "done" => (stage = "parse" /\ Status = 400))

\* The query arguments give a valid origin and destination and, if any, an
\* even number of waypoint values.
ArgsWellFormed ==
    /\ surface = "v1"
    /\ json.tag = "None"
    /\ "origin" \in DOMAIN args
    /\ "destination" \in DOMAIN args
    /\ Floats(args["origin"]).exc = NoExc
    /\ Floats(args["destination"]).exc = NoExc
    /\ Len(Floats(args["origin"]).val) = 2
    /\ Len(Floats(args["destination"]).val) = 2
    /\ "waypoints" \in DOMAIN args =>
        /\ Floats(args["waypoints"]).exc = NoExc
        /\ Len(Floats(args["waypoints"]).val) % 2 = 0

\* The pairs [[lat1, lon1], [lat2, lon2], ...] a JSON body writes for the flat
\* list wp of an even number of values.
JsonPairs(wp) ==
    PyList([i \in 1..(Len(wp) \div 2) |-> PyList(<<wp[2 * i - 1], wp[2 * i]>>)])

\* The JSON body that supplies what the query arguments supply.
EquivalentBody ==
    [k \in DOMAIN args \cap {"origin", "destination", "mode", "waypoints"} |->
        IF k = "mode" THEN args[k]
        ELSE IF k = "waypoints" THEN JsonPairs(Floats(args[k]).val)
        ELSE PyList(Floats(args[k]).val)]

\* C3: the RouteQuery built from well-formed query arguments is the RouteQuery
\* from_json builds from the JSON body that supplies the same origin,
\* destination, waypoints and mode.
C3_ArgsAndJsonAgree ==
    (ArgsWellFormed /\ pc \notin {"idle", "parse"})
        => query = FromJson(NewRouteQuery, EquivalentBody).query

\* from_args has read the waypoints argument of the request: origin and
\* destination are present and numeric, and so are the waypoint values.
WaypointsRead ==
    /\ surface = "v1"
    /\ json.tag = "None"
    /\ pc \notin {"idle", "parse"}
    /\ "origin" \in DOMAIN args
    /\ "destination" \in DOMAIN args
    /\ "waypoints" \in DOMAIN args
    /\ Floats(args["origin"]).exc = NoExc
    /\ Floats(args["destination"]).exc = NoExc
    /\ Floats(args["waypoints"]).exc = NoExc

\* C4: the values of the waypoints argument are grouped pairwise in order,
\* and a request with an odd number of them is rejected in Parse.
C4_OddWaypointsRejected ==
    WaypointsRead =>
        LET wp == Floats(args["waypoints"]).val IN
        IF Len(wp) % 2 = 1
        THEN pc = "done" /\ stage = "parse" /\ exc # NoExc
        ELSE query.waypoints.v =
                [i \in 1..(Len(wp) \div 2) |->
                    PyTuple(<<wp[2 * i - 1], wp[2 * i]>>)]

\* The yours provider answered with a coordinates array of [lon, lat] pairs.
YoursAnsweredPairs ==
    /\ adapter = "route_yours"
    /\ upstream.kind = "json"
    /\ "coordinates" \in DOMAIN upstream.payload
    /\ \A i \in 1..Len(upstream.payload["coordinates"].v) :
        Len(upstream.payload["coordinates"].v[i].v) = 2

\* C5: when the yours provider answers with a coordinates array of [lon, lat]
\* pairs, route_yours returns a result whose track holds one (lat, lon) tuple
\* per pair, in the order of the array: element i is (pair i's second
\* component, pair i's first component).
C5_YoursSwapsAxes ==
    YoursAnsweredPairs =>
        /\ stage # "invoke"
        /\ pc = "format" =>
            LET c == upstream.payload["coordinates"].v IN
            /\ DOMAIN result = {"track"}
            /\ result["track"].tag = "list"
            /\ Len(result["track"].v) = Len(c)
            /\ \A i \in 1..Len(c) :
                /\ result["track"].v[i].tag = "tuple"
                /\ result["track"].v[i].v = <<c[i].v[2], c[i].v[1]>>

\* route_yours has returned the track of an answer of two different pairs.
C5_Witness ==
    /\ YoursAnsweredPairs
    /\ pc = "format"
    /\ Len(upstream.payload["coordinates"].v) = 2
    /\ upstream.payload["coordinates"].v[1] # upstream.payload["coordinates"].v[2]
    /\ Len(result["track"].v) = 2

\* C6: every pair of the result route_ecan returns is a geographic (lat, lon):
\* |lat| <= 90 and |lon| <= 180.
C6_EcanEmitsGeographic ==
    (adapter = "route_ecan" /\ pc = "format")
        => \A i \in 1..Len(result["coordinates"].v) :
            /\ Abs(result["coordinates"].v[i].v[1]) <= 90
            /\ Abs(result["coordinates"].v[i].v[2]) <= 180

\* The path of the provider's answer, where the answer has the fields the
\* adapter reads: a list of points, or None.
UpstreamPath ==
    IF upstream.kind # "json" THEN PyNone
    ELSE IF adapter = "route_yours"
    THEN DictGet(upstream.payload, "coordinates", PyNone)
    ELSE IF "routes" \notin DOMAIN upstream.payload THEN PyNone
    ELSE IF "features" \notin DOMAIN upstream.payload["routes"] THEN PyNone
    ELSE IF upstream.payload["routes"]["features"].v = <<>> THEN PyNone
    ELSE upstream.payload["routes"]["features"].v[1]["geometry"]["paths"].v[1]

\* C7: once the adapter has made its call: the call was made once; a call that
\* failed in transport ends the request with a 502 status, and so does an
\* answer that lacks the expected fields; an answer with no coordinates ends
\* the request in the Invoke stage with an error; and a request ends in
\* success only if the answer held a path that is not empty.
C7_NoFailureAsSuccess ==
    calls > 0 =>
        /\ calls = 1
        /\ upstream.kind = "URLError" => (pc = "done" /\ Status = 502)
        /\ (upstream.kind # "URLError" /\ UpstreamPath.tag = "None")
            => (pc = "done" /\ Status = 502)
        /\ (UpstreamPath.tag # "None" /\ UpstreamPath.v = <<>>)
            => (pc = "done" /\ stage = "invoke" /\ exc # NoExc)
        /\ (pc = "done" /\ exc = NoExc)
            => (UpstreamPath.tag # "None" /\ UpstreamPath.v # <<>>)

\* C8: a request to /api/v1/<service> that reaches the Format stage calls the
\* formatter its format argument names (json without one); a format other
\* than json and gpx ends the request with a 400 status, and nothing but json
\* and gpx is ever called on the result.
C8_UnsupportedFormatRejected ==
    (surface = "v1" /\ pc = "done" /\ stage \in {"format", "respond"})
        => /\ formatter \in {"none", "json", "gpx"}
           /\ DictGet(args, "format", "json") \in {"json", "gpx"}
                => formatter = DictGet(args, "format", "json")
           /\ DictGet(args, "format", "json") \notin {"json", "gpx"}
                => (Status = 400 /\ formatter = "none")

\* C9: a request to /api/osrm/v1 that succeeds was served with the first loc
\* as origin, the last as destination and the ones between as waypoints, in
\* the format its output argument names (gpx without one).
C9_OsrmMapping ==
    (surface = "osrm" /\ pc = "done" /\ exc = NoExc)
        => LET locs == GetList(args["loc"]) IN
           /\ query.origin = locs[1]
           /\ query.destination = locs[Len(locs)]
           /\ query.waypoints.v = SubSeq(locs, 2, Len(locs) - 1)
           /\ response.kind = DictGet(args, "output", "gpx")

\* The sequence of points a result holds, under whichever key.
ResultPoints ==
    DictGet(result, "coordinates",
        DictGet(result, "track", DictGet(result, "route", PyNone)))

\* C10: the gpx formatter, called on the result an adapter built from an
\* answer with a path that is not empty, completes, and the points of its
\* <trk><trkseg> and of its <rte> are the points of the result, one element
\* per point, in order.
C10_GpxOfAdapterResult ==
    (/\ pc = "done"
     /\ formatter = "gpx"
     /\ ResultPoints.tag = "list"
     /\ ResultPoints.v # <<>>)
        => /\ exc = NoExc
           /\ response.kind = "gpx"
           /\ response.trk = GpxPoints(ResultPoints.v)
           /\ response.rte = GpxPoints(ResultPoints.v)

====
